---- MODULE Spec2Model ----
(***************************************************************************)
(* Plugin manager of DarkraiBot (src/bot/utils/plugin_manager.py) and the  *)
(* `plugin` administrative commands (src/bot/cogs/plugin_management.py).   *)
(*                                                                         *)
(* Text is modelled as a sequence of tokens: a token is a key prefix such  *)
(* as "# Version:", a blank " ", a comma "," or a word.  A module path     *)
(* "cogs.general" is the pair <<"cogs", "general">>.                       *)
(***************************************************************************)
EXTENDS Integers, Sequences, FiniteSets, TLC

VARIABLES
    files,      \* the plugin directories on disk: <<dir, stem>> -> file
    plugins,    \* PluginManager.plugins: name -> PluginInfo
    order,      \* insertion order of the keys of PluginManager.plugins
    active,     \* bot.extensions: the module paths HostRuntime has active
    registry,   \* the document plugin_registry.json
    fsChanges,  \* number of changes made to the plugin directories so far
    steps,      \* number of steps taken so far; the clock ticks at each
    ret,        \* what the last operation did: name, return value, calls made
    pending,    \* the operations suspended in an await of HostRuntime
    reminders,  \* the reminders table of the database: id -> row
    loop,       \* ReminderCog.reminder_check_loop: where the task stands
    sent        \* id -> number of reminder messages delivered to the channel

vars == <<files, plugins, order, active, registry, fsChanges, steps, ret,
          pending, reminders, loop, sent>>

----------------------------------------------------------------------------
(* Bounds *)

MaxFsChanges == 1
MaxSteps == 4
\* the largest table the percentage of get_plugin_stats is computed for
MaxTotal == 6
\* the reminder messages counted per reminder
MaxSent == 2
\* the times the reminders cog is unloaded
MaxCancels == 1
\* the database calls of the reminder loop that fail
MaxDbErrors == 1

----------------------------------------------------------------------------
(* Values *)

None == "None"          \* Python None, for an exception slot
NoTime == 0             \* Python None, for a datetime slot
Null == "null"          \* JSON null

plugin_dirs == <<"cogs", "plugins">>
Dirs == {plugin_dirs[i] : i \in 1..Len(plugin_dirs)}
Stems == {"general", "example", "_util"}
Names == {"general", "example"}

\* plugin_file.name.startswith("_")
StartsWithUnderscore(stem) == stem = "_util"

\* File contents.  NoHeader is a file without a metadata header, Header2 a
\* file whose header declares version 2.0 and one dependency (followed by
\* empty entries), Unreadable a file that open() fails on.
NoHeader == [readable |-> TRUE, lines |-> << <<"import", " ", "logging">> >>]
Header2 ==
    [readable |-> TRUE,
     lines |-> << <<"# Version:", " ", "2.0">>,
                  <<" ", "# Dependencies:", " ", "general", ",", " ", ",">> >>]
Unreadable == [readable |-> FALSE, lines |-> <<>>]
FileContents == {NoHeader, Header2, Unreadable}
\* what the environment writes into the plugins directory
WrittenContents == {NoHeader, Header2}

\* Exceptions raised by HostRuntime or by the registry write, and str(e)
\* (ExtensionError stands for discord.py's ExtensionAlreadyLoaded,
\* ExtensionNotLoaded, ExtensionNotFound and ExtensionFailed alike)
ExtensionError == "ExtensionError"
OSError == "OSError"

str(e) ==
    CASE e = ExtensionError -> "Extension raised an error"
      [] e = OSError -> "No space left on device"

\* datetime.isoformat() and datetime.fromisoformat()
isoformat(t) == ToString(t)
fromisoformat(s) == CHOOSE t \in 0..(MaxSteps + 1) : ToString(t) = s

----------------------------------------------------------------------------
(* MetadataExtractor: PluginManager._load_plugin_metadata *)

RECURSIVE lstrip(_)
lstrip(s) == IF s # <<>> /\ Head(s) = " " THEN lstrip(Tail(s)) ELSE s

RECURSIVE rstrip(_)
rstrip(s) ==
    IF s # <<>> /\ s[Len(s)] = " " THEN rstrip(SubSeq(s, 1, Len(s) - 1)) ELSE s

strip(s) == rstrip(lstrip(s))

\* s.split(","): the pieces between the commas, empty pieces included
RECURSIVE split(_, _)
split(s, piece) ==
    IF s = <<>> THEN <<piece>>
    ELSE IF Head(s) = "," THEN <<piece>> \o split(Tail(s), <<>>)
    ELSE split(Tail(s), Append(piece, Head(s)))

\* [dep.strip() for dep in pieces if dep.strip()]
RECURSIVE strip_nonempty(_)
strip_nonempty(pieces) ==
    IF pieces = <<>> THEN <<>>
    ELSE IF strip(Head(pieces)) # <<>>
         THEN <<strip(Head(pieces))>> \o strip_nonempty(Tail(pieces))
         ELSE strip_nonempty(Tail(pieces))

MetadataKey(prefix) ==
    CASE prefix = "# Plugin:" -> "name"
      [] prefix = "# Version:" -> "version"
      [] prefix = "# Author:" -> "author"
      [] prefix = "# Description:" -> "description"
      [] prefix = "# Dependencies:" -> "dependencies"
      [] prefix = "# Permissions:" -> "required_permissions"
      [] OTHER -> "-"

\* metadata[key] = value on a dict
SetKey(d, k, v) == [x \in DOMAIN d \cup {k} |-> IF x = k THEN v ELSE d[x]]

EmptyDict == [x \in {} |-> <<>>]

\* one iteration of the loop over lines[:50]
MetadataLine(metadata, rawline) ==
    LET line == strip(rawline)
        key == IF line = <<>> THEN "-" ELSE MetadataKey(Head(line))
        value == strip(Tail(line))
    IN  IF key = "-" THEN metadata
        ELSE IF key = "dependencies"
             THEN SetKey(metadata, key, strip_nonempty(split(value, <<>>)))
             ELSE SetKey(metadata, key, value)

RECURSIVE MetadataLines(_, _)
MetadataLines(metadata, lines) ==
    IF lines = <<>> THEN metadata
    ELSE MetadataLines(MetadataLine(metadata, Head(lines)), Tail(lines))

\* the extractor reading the whole file instead of lines[:50]
_load_plugin_metadata_whole_file(file) ==
    IF ~file.readable THEN EmptyDict
    ELSE MetadataLines(EmptyDict, file.lines)

_load_plugin_metadata(file) ==
    IF ~file.readable THEN EmptyDict
    ELSE MetadataLines(EmptyDict, SubSeq(file.lines, 1, IF Len(file.lines) < 50 THEN Len(file.lines) ELSE 50))

----------------------------------------------------------------------------
(* PluginDescriptor: class PluginInfo *)

PluginInfo(name, path, metadata) ==
    [name |-> name, path |-> path, metadata |-> metadata,
     loaded |-> FALSE, load_time |-> NoTime, error |-> None]

to_dict(p) ==
    [name |-> p.name,
     path |-> p.path,
     metadata |-> p.metadata,
     loaded |-> p.loaded,
     load_time |-> IF p.load_time # NoTime THEN isoformat(p.load_time) ELSE Null,
     error |-> IF p.error # None THEN str(p.error) ELSE Null]

\* datetime.utcnow(): no two operations run at the same instant
now == steps + 1

\* The manager with its collaborators, as one value the operations transform
Manager == [plugins |-> plugins, order |-> order, active |-> active,
            registry |-> registry]

\* self.plugins[name] = info on an insertion-ordered dict
SetPlugin(m, name, info) ==
    [m EXCEPT !.plugins = SetKey(m.plugins, name, info),
              !.order = IF name \in DOMAIN m.plugins THEN m.order
                        ELSE Append(m.order, name)]

----------------------------------------------------------------------------
(* HostRuntime: bot.load_extension / unload_extension / reload_extension.  *)
(* h is what the unit's own code does: "ok" or "raise".  A unit that is    *)
(* already active cannot be activated, one that is not active cannot be    *)
(* deactivated or reloaded; a failed call leaves the set of active units   *)
(* as it was.                                                              *)

HostOutcomes == {"ok", "raise"}

load_extension(act, path, h) ==
    IF path \in act THEN [active |-> act, exc |-> ExtensionError]
    ELSE IF h = "ok" THEN [active |-> act \cup {path}, exc |-> None]
    ELSE [active |-> act, exc |-> ExtensionError]

unload_extension(act, path, h) ==
    IF path \notin act THEN [active |-> act, exc |-> ExtensionError]
    ELSE IF h = "ok" THEN [active |-> act \ {path}, exc |-> None]
    ELSE [active |-> act, exc |-> ExtensionError]

reload_extension(act, path, h) ==
    IF path \notin act THEN [active |-> act, exc |-> ExtensionError]
    ELSE IF h = "ok" THEN [active |-> act, exc |-> None]
    ELSE [active |-> act, exc |-> ExtensionError]

----------------------------------------------------------------------------
(* RegistryStore: save_registry / load_registry *)

\* How the write ends: completed; failed before the file was opened (mkdir
\* or open raised); failed after open(.., "w") truncated the file.
SaveOutcomes == {"ok", "fail_open", "fail_write"}

\* A document is absent, cut short by a failed write, or a complete JSON
\* object; keys is the order of the keys of its "plugins" object.
NoDocument ==
    [state |-> "absent", last_updated |-> Null, plugins |-> EmptyDict, keys |-> <<>>]
PartialDocument ==
    [state |-> "partial", last_updated |-> Null, plugins |-> EmptyDict, keys |-> <<>>]

registry_data(m, t) ==
    [state |-> "ok",
     last_updated |-> isoformat(t),
     plugins |-> [n \in DOMAIN m.plugins |-> to_dict(m.plugins[n])],
     keys |-> m.order]

\* save_registry without its try/except: a failed write raises to the caller
save_registry_raises(m, t, s) ==
    [m |-> [m EXCEPT !.registry =
                CASE s = "ok" -> registry_data(m, t)
                  [] s = "fail_open" -> m.registry
                  [] s = "fail_write" -> PartialDocument],
     raised |-> s # "ok"]

save_registry(m, t, s) ==
    [m |-> [m EXCEPT !.registry =
                CASE s = "ok" -> registry_data(m, t)
                  [] s = "fail_open" -> m.registry
                  [] s = "fail_write" -> PartialDocument],
     raised |-> FALSE]

\* the loop body of a load_registry that restores loaded from the document
RestoredInfo_trusts(plugin_data) ==
    [PluginInfo(plugin_data.name, plugin_data.path, plugin_data.metadata)
        EXCEPT !.loaded = plugin_data.loaded,
               !.load_time = IF plugin_data.load_time # Null
                             THEN fromisoformat(plugin_data.load_time)
                             ELSE NoTime]

\* the body of the loop of load_registry, for one entry of the document
RestoredInfo(plugin_data) ==
    [PluginInfo(plugin_data.name, plugin_data.path, plugin_data.metadata)
        EXCEPT !.loaded = FALSE,
               !.load_time = IF plugin_data.load_time # Null
                             THEN fromisoformat(plugin_data.load_time)
                             ELSE NoTime]

\* for name, plugin_data in registry_data.get("plugins", {}).items()
RECURSIVE RestoreAll(_, _, _)
RestoreAll(m, doc, keys) ==
    IF keys = <<>> THEN m
    ELSE RestoreAll(SetPlugin(m, Head(keys), RestoredInfo(doc.plugins[Head(keys)])),
                    doc, Tail(keys))

\* An absent document returns early; a document json.load cannot parse
\* raises, which is caught and logged.
load_registry(m) ==
    IF m.registry.state = "absent" THEN m
    ELSE IF m.registry.state = "partial" THEN m
    ELSE RestoreAll(m, m.registry, m.registry.keys)

----------------------------------------------------------------------------
(* PluginManager: discovery *)

\* plugin_dir.glob("*.py") yields the directory's files in an order the
\* file system chooses: globOrder lists the stems in that order.
GlobOrders ==
    {<<"general", "example", "_util">>, <<"_util", "example", "general">>}

\* the loop body of a discover_plugins that keeps a name it already has
DiscoverFile_first_wins(m, fs, dir, stem) ==
    IF <<dir, stem>> \notin DOMAIN fs THEN m
    ELSE IF StartsWithUnderscore(stem) THEN m
    ELSE IF stem \in DOMAIN m.plugins THEN m
    ELSE SetPlugin(m, stem,
                   PluginInfo(stem, <<dir, stem>>,
                              _load_plugin_metadata(fs[<<dir, stem>>])))

\* the body of the inner loop of discover_plugins, for one file
DiscoverFile(m, fs, dir, stem) ==
    IF <<dir, stem>> \notin DOMAIN fs THEN m
    ELSE IF StartsWithUnderscore(stem) THEN m
    ELSE SetPlugin(m, stem,
                   PluginInfo(stem, <<dir, stem>>,
                              _load_plugin_metadata(fs[<<dir, stem>>])))

RECURSIVE DiscoverDir(_, _, _, _)
DiscoverDir(m, fs, dir, stems) ==
    IF stems = <<>> THEN m
    ELSE DiscoverDir(DiscoverFile(m, fs, dir, Head(stems)), fs, dir, Tail(stems))

RECURSIVE DiscoverDirs(_, _, _, _)
DiscoverDirs(m, fs, dirs, globOrder) ==
    IF dirs = <<>> THEN m
    ELSE DiscoverDirs(DiscoverDir(m, fs, Head(dirs), globOrder), fs,
                      Tail(dirs), globOrder)

\* discover_plugins that drops the names whose file it did not find
discover_plugins_purges(m, fs, globOrder) ==
    LET d == DiscoverDirs(m, fs, plugin_dirs, globOrder)
        found == {n \in DOMAIN d.plugins : \E dir \in Dirs : <<dir, n>> \in DOMAIN fs}
    IN  [d EXCEPT !.plugins = [n \in found |-> d.plugins[n]],
                  !.order = SelectSeq(d.order, LAMBDA n : n \in found)]

discover_plugins(m, fs, globOrder) == DiscoverDirs(m, fs, plugin_dirs, globOrder)

----------------------------------------------------------------------------
(* PluginManager: check_dependencies.  A declared dependency is text; it   *)
(* names the plugin n when it is the one word n.                           *)

\* the loop of a check_dependencies that asks only whether the name is known
RECURSIVE missing_deps_absent_only(_, _)
missing_deps_absent_only(m, dependencies) ==
    IF dependencies = <<>> THEN <<>>
    ELSE LET dep == Head(dependencies)
             rest == missing_deps_absent_only(m, Tail(dependencies))
         IN  IF ~(\E n \in DOMAIN m.plugins : <<n>> = dep)
             THEN <<dep>> \o rest
             ELSE rest

\* for dep in dependencies: if dep not in self.plugins or not loaded: append
RECURSIVE missing_deps(_, _)
missing_deps(m, dependencies) ==
    IF dependencies = <<>> THEN <<>>
    ELSE LET dep == Head(dependencies)
             rest == missing_deps(m, Tail(dependencies))
         IN  IF \/ ~(\E n \in DOMAIN m.plugins : <<n>> = dep)
                \/ \E n \in DOMAIN m.plugins : <<n>> = dep /\ ~m.plugins[n].loaded
             THEN <<dep>> \o rest
             ELSE rest

check_dependencies(m, plugin_name) ==
    IF plugin_name \notin DOMAIN m.plugins THEN <<>>
    ELSE LET metadata == m.plugins[plugin_name].metadata
         IN  IF "dependencies" \notin DOMAIN metadata THEN <<>>
             ELSE IF metadata["dependencies"] = <<>> THEN <<>>
             ELSE missing_deps(m, metadata["dependencies"])

----------------------------------------------------------------------------
(* PluginManager: load_plugin / unload_plugin / reload_plugin.             *)
(* An operation returns the manager it leaves, its return value, the       *)
(* HostRuntime calls it made (call, module path, exception raised) and how *)
(* the registry writes it attempted ended.                                 *)

Result(m, ok, calls, saves) == [m |-> m, ok |-> ok, calls |-> calls, saves |-> saves]

\* unload_plugin whose except branch also clears loaded, as load_plugin's does
unload_plugin_flips(m, name, t, h, s) ==
    IF name \notin DOMAIN m.plugins THEN Result(m, FALSE, <<>>, <<>>)
    ELSE
        LET path == m.plugins[name].path
            host == unload_extension(m.active, path, h)
            calls == << <<"unload_extension", path, host.exc>> >>
        IN  IF host.exc = None
            THEN LET m1 == [m EXCEPT !.active = host.active,
                                     !.plugins[name].loaded = FALSE,
                                     !.plugins[name].error = None]
                     sv == save_registry(m1, t, s)
                 IN  IF sv.raised
                     THEN Result([sv.m EXCEPT !.plugins[name].error = OSError],
                                 FALSE, calls, <<s>>)
                     ELSE Result(sv.m, TRUE, calls, <<s>>)
            ELSE Result([m EXCEPT !.plugins[name].error = host.exc,
                                  !.plugins[name].loaded = FALSE],
                        FALSE, calls, <<>>)

\* unload_plugin whose success path leaves loaded as it was
unload_plugin_keeps_loaded(m, name, t, h, s) ==
    IF name \notin DOMAIN m.plugins THEN Result(m, FALSE, <<>>, <<>>)
    ELSE
        LET path == m.plugins[name].path
            host == unload_extension(m.active, path, h)
            calls == << <<"unload_extension", path, host.exc>> >>
        IN  IF host.exc = None
            THEN LET m1 == [m EXCEPT !.active = host.active,
                                     !.plugins[name].error = None]
                     sv == save_registry(m1, t, s)
                 IN  IF sv.raised
                     THEN Result([sv.m EXCEPT !.plugins[name].error = OSError],
                                 FALSE, calls, <<s>>)
                     ELSE Result(sv.m, TRUE, calls, <<s>>)
            ELSE Result([m EXCEPT !.plugins[name].error = host.exc],
                        FALSE, calls, <<>>)

unload_plugin(m, name, t, h, s) ==
    IF name \notin DOMAIN m.plugins THEN Result(m, FALSE, <<>>, <<>>)
    ELSE
        LET path == m.plugins[name].path
            host == unload_extension(m.active, path, h)
            calls == << <<"unload_extension", path, host.exc>> >>
        IN  IF host.exc = None
            THEN LET m1 == [m EXCEPT !.active = host.active,
                                     !.plugins[name].loaded = FALSE,
                                     !.plugins[name].error = None]
                     sv == save_registry(m1, t, s)
                 IN  IF sv.raised
                     THEN Result([sv.m EXCEPT !.plugins[name].error = OSError],
                                 FALSE, calls, <<s>>)
                     ELSE Result(sv.m, TRUE, calls, <<s>>)
            ELSE Result([m EXCEPT !.plugins[name].error = host.exc],
                        FALSE, calls, <<>>)

\* load_plugin that falls back to the module "cogs.<name>" for a name it does
\* not know, as the `reload` command of cogs/core.py does
load_plugin_fallback(m, name, reload, t, h1, s1, h2, s2) ==
    IF name \notin DOMAIN m.plugins
    THEN LET host == load_extension(m.active, <<"cogs", name>>, h2)
         IN  Result([m EXCEPT !.active = host.active], host.exc = None,
                    << <<"load_extension", <<"cogs", name>>, host.exc>> >>, <<>>)
    ELSE
        LET un == IF reload /\ m.plugins[name].loaded
                  THEN unload_plugin(m, name, t, h1, s1)
                  ELSE Result(m, TRUE, <<>>, <<>>)
            path == un.m.plugins[name].path
            host == load_extension(un.m.active, path, h2)
            calls == Append(un.calls, <<"load_extension", path, host.exc>>)
        IN  IF host.exc = None
            THEN LET m1 == [un.m EXCEPT !.active = host.active,
                                        !.plugins[name].loaded = TRUE,
                                        !.plugins[name].load_time = t,
                                        !.plugins[name].error = None]
                     sv == save_registry(m1, t, s2)
                 IN  IF sv.raised
                     THEN Result([sv.m EXCEPT !.plugins[name].error = OSError,
                                              !.plugins[name].loaded = FALSE],
                                 FALSE, calls, Append(un.saves, s2))
                     ELSE Result(sv.m, TRUE, calls, Append(un.saves, s2))
            ELSE Result([un.m EXCEPT !.active = host.active,
                                     !.plugins[name].error = host.exc,
                                     !.plugins[name].loaded = FALSE],
                        FALSE, calls, un.saves)

\* load_plugin whose success path leaves the error of an earlier attempt
load_plugin_keeps_error(m, name, reload, t, h1, s1, h2, s2) ==
    IF name \notin DOMAIN m.plugins THEN Result(m, FALSE, <<>>, <<>>)
    ELSE
        LET un == IF reload /\ m.plugins[name].loaded
                  THEN unload_plugin(m, name, t, h1, s1)
                  ELSE Result(m, TRUE, <<>>, <<>>)
            path == un.m.plugins[name].path
            host == load_extension(un.m.active, path, h2)
            calls == Append(un.calls, <<"load_extension", path, host.exc>>)
        IN  IF host.exc = None
            THEN LET m1 == [un.m EXCEPT !.active = host.active,
                                        !.plugins[name].loaded = TRUE,
                                        !.plugins[name].load_time = t]
                     sv == save_registry(m1, t, s2)
                 IN  IF sv.raised
                     THEN Result([sv.m EXCEPT !.plugins[name].error = OSError,
                                              !.plugins[name].loaded = FALSE],
                                 FALSE, calls, Append(un.saves, s2))
                     ELSE Result(sv.m, TRUE, calls, Append(un.saves, s2))
            ELSE Result([un.m EXCEPT !.active = host.active,
                                     !.plugins[name].error = host.exc,
                                     !.plugins[name].loaded = FALSE],
                        FALSE, calls, un.saves)

\* load_plugin that refuses a plugin whose dependencies are not satisfied
load_plugin_checks_deps(m, name, reload, t, h1, s1, h2, s2) ==
    IF name \notin DOMAIN m.plugins THEN Result(m, FALSE, <<>>, <<>>)
    ELSE IF check_dependencies(m, name) # <<>> THEN Result(m, FALSE, <<>>, <<>>)
    ELSE
        LET un == IF reload /\ m.plugins[name].loaded
                  THEN unload_plugin(m, name, t, h1, s1)
                  ELSE Result(m, TRUE, <<>>, <<>>)
            path == un.m.plugins[name].path
            host == load_extension(un.m.active, path, h2)
            calls == Append(un.calls, <<"load_extension", path, host.exc>>)
        IN  IF host.exc = None
            THEN LET m1 == [un.m EXCEPT !.active = host.active,
                                        !.plugins[name].loaded = TRUE,
                                        !.plugins[name].load_time = t,
                                        !.plugins[name].error = None]
                     sv == save_registry(m1, t, s2)
                 IN  IF sv.raised
                     THEN Result([sv.m EXCEPT !.plugins[name].error = OSError,
                                              !.plugins[name].loaded = FALSE],
                                 FALSE, calls, Append(un.saves, s2))
                     ELSE Result(sv.m, TRUE, calls, Append(un.saves, s2))
            ELSE Result([un.m EXCEPT !.active = host.active,
                                     !.plugins[name].error = host.exc,
                                     !.plugins[name].loaded = FALSE],
                        FALSE, calls, un.saves)

\* load_plugin whose registry write holds the table as it was before the
\* descriptor was updated
load_plugin_saves_first(m, name, reload, t, h1, s1, h2, s2) ==
    IF name \notin DOMAIN m.plugins THEN Result(m, FALSE, <<>>, <<>>)
    ELSE
        LET un == IF reload /\ m.plugins[name].loaded
                  THEN unload_plugin(m, name, t, h1, s1)
                  ELSE Result(m, TRUE, <<>>, <<>>)
            path == un.m.plugins[name].path
            host == load_extension(un.m.active, path, h2)
            calls == Append(un.calls, <<"load_extension", path, host.exc>>)
        IN  IF host.exc = None
            THEN LET m1 == [un.m EXCEPT !.active = host.active,
                                        !.plugins[name].loaded = TRUE,
                                        !.plugins[name].load_time = t,
                                        !.plugins[name].error = None]
                     sv == [save_registry(un.m, t, s2) EXCEPT
                               !.m.active = m1.active, !.m.plugins = m1.plugins]
                 IN  IF sv.raised
                     THEN Result([sv.m EXCEPT !.plugins[name].error = OSError,
                                              !.plugins[name].loaded = FALSE],
                                 FALSE, calls, Append(un.saves, s2))
                     ELSE Result(sv.m, TRUE, calls, Append(un.saves, s2))
            ELSE Result([un.m EXCEPT !.active = host.active,
                                     !.plugins[name].error = host.exc,
                                     !.plugins[name].loaded = FALSE],
                        FALSE, calls, un.saves)

load_plugin(m, name, reload, t, h1, s1, h2, s2) ==
    IF name \notin DOMAIN m.plugins THEN Result(m, FALSE, <<>>, <<>>)
    ELSE
        LET un == IF reload /\ m.plugins[name].loaded
                  THEN unload_plugin(m, name, t, h1, s1)
                  ELSE Result(m, TRUE, <<>>, <<>>)
            path == un.m.plugins[name].path
            host == load_extension(un.m.active, path, h2)
            calls == Append(un.calls, <<"load_extension", path, host.exc>>)
        IN  IF host.exc = None
            THEN LET m1 == [un.m EXCEPT !.active = host.active,
                                        !.plugins[name].loaded = TRUE,
                                        !.plugins[name].load_time = t,
                                        !.plugins[name].error = None]
                     sv == save_registry(m1, t, s2)
                 IN  IF sv.raised
                     THEN Result([sv.m EXCEPT !.plugins[name].error = OSError,
                                              !.plugins[name].loaded = FALSE],
                                 FALSE, calls, Append(un.saves, s2))
                     ELSE Result(sv.m, TRUE, calls, Append(un.saves, s2))
            ELSE Result([un.m EXCEPT !.active = host.active,
                                     !.plugins[name].error = host.exc,
                                     !.plugins[name].loaded = FALSE],
                        FALSE, calls, un.saves)

\* reload_plugin whose except branch returns False without storing the error
reload_plugin_silent(m, name, t, h, s) ==
    IF name \notin DOMAIN m.plugins THEN Result(m, FALSE, <<>>, <<>>)
    ELSE
        LET path == m.plugins[name].path
            host == reload_extension(m.active, path, h)
            calls == << <<"reload_extension", path, host.exc>> >>
        IN  IF host.exc = None
            THEN LET m1 == [m EXCEPT !.active = host.active,
                                     !.plugins[name].loaded = TRUE,
                                     !.plugins[name].load_time = t,
                                     !.plugins[name].error = None]
                     sv == save_registry(m1, t, s)
                 IN  IF sv.raised
                     THEN Result([sv.m EXCEPT !.plugins[name].error = OSError],
                                 FALSE, calls, <<s>>)
                     ELSE Result(sv.m, TRUE, calls, <<s>>)
            ELSE Result([m EXCEPT !.active = host.active],
                        FALSE, calls, <<>>)

reload_plugin(m, name, t, h, s) ==
    IF name \notin DOMAIN m.plugins THEN Result(m, FALSE, <<>>, <<>>)
    ELSE
        LET path == m.plugins[name].path
            host == reload_extension(m.active, path, h)
            calls == << <<"reload_extension", path, host.exc>> >>
        IN  IF host.exc = None
            THEN LET m1 == [m EXCEPT !.active = host.active,
                                     !.plugins[name].loaded = TRUE,
                                     !.plugins[name].load_time = t,
                                     !.plugins[name].error = None]
                     sv == save_registry(m1, t, s)
                 IN  IF sv.raised
                     THEN Result([sv.m EXCEPT !.plugins[name].error = OSError],
                                 FALSE, calls, <<s>>)
                     ELSE Result(sv.m, TRUE, calls, <<s>>)
            ELSE Result([m EXCEPT !.active = host.active,
                                  !.plugins[name].error = host.exc],
                        FALSE, calls, <<>>)

----------------------------------------------------------------------------
(* PluginManager: load_all_plugins / reload_all_plugins.  outs gives, for  *)
(* each name, what HostRuntime and the registry write do when its turn     *)
(* comes.  acc carries the manager and the results dict through the loop.  *)

AllResult(m, results, calls, saves) ==
    [m |-> m, ok |-> TRUE, results |-> results, calls |-> calls, saves |-> saves]

\* load_all_plugins' loop that stops at the first load that fails
RECURSIVE LoadEach_stops(_, _, _, _)
LoadEach_stops(acc, names, t, outs) ==
    IF names = <<>> THEN acc
    ELSE LET name == Head(names)
             r == load_plugin(acc.m, name, FALSE, t, "ok", "ok",
                              outs[name][1], outs[name][2])
             next == AllResult(r.m, Append(acc.results, <<name, r.ok>>),
                               acc.calls \o r.calls, acc.saves \o r.saves)
         IN  IF ~r.ok THEN next ELSE LoadEach_stops(next, Tail(names), t, outs)

\* for plugin_name in self.plugins: results[plugin_name] = await load_plugin
RECURSIVE LoadEach(_, _, _, _)
LoadEach(acc, names, t, outs) ==
    IF names = <<>> THEN acc
    ELSE LET name == Head(names)
             r == load_plugin(acc.m, name, FALSE, t, "ok", "ok",
                              outs[name][1], outs[name][2])
             next == AllResult(r.m, Append(acc.results, <<name, r.ok>>),
                               acc.calls \o r.calls, acc.saves \o r.saves)
         IN  LoadEach(next, Tail(names), t, outs)

load_all_plugins(m, fs, globOrder, t, outs) ==
    LET m0 == discover_plugins(m, fs, globOrder)
    IN  LoadEach(AllResult(m0, <<>>, <<>>, <<>>), m0.order, t, outs)

\* reload_all_plugins' loop without the test of plugin_info.loaded
RECURSIVE ReloadEach_all(_, _, _, _)
ReloadEach_all(acc, names, t, outs) ==
    IF names = <<>> THEN acc
    ELSE LET name == Head(names)
             r == reload_plugin(acc.m, name, t, outs[name][1], outs[name][2])
             next == AllResult(r.m, Append(acc.results, <<name, r.ok>>),
                               acc.calls \o r.calls, acc.saves \o r.saves)
         IN  ReloadEach_all(next, Tail(names), t, outs)

\* for plugin_name, plugin_info in self.plugins.items(): if loaded: reload
RECURSIVE ReloadEach(_, _, _, _)
ReloadEach(acc, names, t, outs) ==
    IF names = <<>> THEN acc
    ELSE LET name == Head(names)
             r == reload_plugin(acc.m, name, t, outs[name][1], outs[name][2])
             next == AllResult(r.m, Append(acc.results, <<name, r.ok>>),
                               acc.calls \o r.calls, acc.saves \o r.saves)
         IN  IF ~acc.m.plugins[name].loaded
             THEN ReloadEach(acc, Tail(names), t, outs)
             ELSE ReloadEach(next, Tail(names), t, outs)

reload_all_plugins(m, t, outs) ==
    ReloadEach(AllResult(m, <<>>, <<>>, <<>>), m.order, t, outs)

----------------------------------------------------------------------------
(* PluginManager: get_plugin_stats *)

\* f"{(loaded/total*100):.1f}%": the quotient in tenths of a percent, rounded
\* to the nearest tenth (a tie to the even one), as text
Format1f(loaded, total) ==
    LET q == (loaded * 1000) \div total
        r == (loaded * 1000) % total
        tenths == IF 2 * r > total \/ (2 * r = total /\ q % 2 = 1)
                  THEN q + 1 ELSE q
    IN  <<ToString(tenths \div 10), ".", ToString(tenths % 10), "%">>

\* get_plugin_stats that counts as failed the plugins that are not loaded
get_plugin_stats_not_loaded(m) ==
    LET total == Cardinality(DOMAIN m.plugins)
        loaded == Cardinality({n \in DOMAIN m.plugins : m.plugins[n].loaded})
        errors == Cardinality({n \in DOMAIN m.plugins : ~m.plugins[n].loaded})
    IN  [total_plugins |-> total,
         loaded_plugins |-> loaded,
         failed_plugins |-> errors,
         success_rate |-> IF total > 0 THEN Format1f(loaded, total)
                          ELSE <<"0", "%">>]

get_plugin_stats(m) ==
    LET total == Cardinality(DOMAIN m.plugins)
        loaded == Cardinality({n \in DOMAIN m.plugins : m.plugins[n].loaded})
        errors == Cardinality({n \in DOMAIN m.plugins : m.plugins[n].error # None})
    IN  [total_plugins |-> total,
         loaded_plugins |-> loaded,
         failed_plugins |-> errors,
         success_rate |-> IF total > 0 THEN Format1f(loaded, total)
                          ELSE <<"0", "%">>]

----------------------------------------------------------------------------
(* The `reload` command of cogs/general.py and of cogs/core.py.  cog_name  *)
(* is the text the administrator typed: <<"general">> for "general",       *)
(* <<"cogs", "general">> for "cogs.general".                               *)

CogNames == {<<"general">>, <<"cogs", "general">>, <<"example">>}

\* f"cogs.{cog_name}" if not cog_name.startswith("cogs.") else cog_name
Qualified(cog_name) ==
    IF Len(cog_name) > 1 /\ Head(cog_name) = "cogs" THEN cog_name
    ELSE <<"cogs">> \o cog_name

general_reload_cog(m, cog_name, h) ==
    LET path == Qualified(cog_name)
        host == reload_extension(m.active, path, h)
    IN  Result([m EXCEPT !.active = host.active], host.exc = None,
               << <<"reload_extension", path, host.exc>> >>, <<>>)

core_reload_cog(m, cog_name, t, h, s) ==
    IF Len(cog_name) = 1 /\ cog_name[1] \in DOMAIN m.plugins
    THEN reload_plugin(m, cog_name[1], t, h, s)
    ELSE LET path == Qualified(cog_name)
             host == reload_extension(m.active, path, h)
         IN  Result([m EXCEPT !.active = host.active], host.exc = None,
                    << <<"reload_extension", path, host.exc>> >>, <<>>)

----------------------------------------------------------------------------
(* Reminders: the table of utils/database.py and the loop of               *)
(* cogs/reminders.py.  A row is due once remind_at <= utcnow().  pc is the  *)
(* next step of the loop task: "sleeping" between two iterations, "send"   *)
(* and "mark" inside the for loop over the batch an iteration fetched,     *)
(* "cancelled" after cog_unload.                                           *)

ReminderIds == {"r1", "r2"}

InitReminders ==
    /\ reminders = [id \in ReminderIds |-> [due |-> FALSE, completed |-> FALSE]]
    /\ loop = [pc |-> "sleeping", batch |-> <<>>, cancels |-> 0, db_errors |-> 0]
    /\ sent = [id \in ReminderIds |-> 0]

----------------------------------------------------------------------------
(* The state machine *)

\* names a caller may pass: the discoverable names and one that never exists
NameInputs == Names \cup {"missing"}

InitialFiles ==
    [k \in {<<"cogs", "general">>, <<"cogs", "_util">>, <<"plugins", "example">>} |->
        IF k = <<"plugins", "example">> THEN Header2 ELSE NoHeader]

\* results is the dict load_all_plugins and reload_all_plugins return, as
\* the sequence of its (name, value) items; raised tells whether the
\* operation ended by raising to its caller instead of returning
Returned(op, name, r) ==
    [op |-> op, name |-> name, ok |-> r.ok, calls |-> r.calls, saves |-> r.saves,
     results |-> <<>>, raised |-> FALSE]

NoReturn(op) ==
    [op |-> op, name |-> "-", ok |-> TRUE, calls |-> <<>>, saves |-> <<>>,
     results |-> <<>>, raised |-> FALSE]

Init ==
    /\ files = InitialFiles
    /\ plugins = EmptyDict
    /\ order = <<>>
    /\ active = {}
    /\ registry = NoDocument
    /\ fsChanges = 0
    /\ steps = 0
    /\ ret = NoReturn("init")
    /\ pending = EmptyDict
    /\ InitReminders

\* what an operation leaves of the manager and its collaborators
Leaves(m) ==
    /\ plugins' = m.plugins
    /\ order' = m.order
    /\ active' = m.active
    /\ registry' = m.registry

\* every step of the machine counts against the bound on the run's length
Step == steps < MaxSteps /\ steps' = steps + 1

\* somebody writes or replaces a file of a plugin directory
FsWrite(dir, stem, content) ==
    /\ Step
    /\ fsChanges < MaxFsChanges
    /\ fsChanges' = fsChanges + 1
    /\ files' = SetKey(files, <<dir, stem>>, content)
    /\ ret' = NoReturn("fs_write")
    /\ UNCHANGED <<plugins, order, active, registry, pending,
                    reminders, loop, sent>>

\* somebody deletes a file of a plugin directory
FsDelete(dir, stem) ==
    /\ Step
    /\ fsChanges < MaxFsChanges
    /\ <<dir, stem>> \in DOMAIN files
    /\ fsChanges' = fsChanges + 1
    /\ files' = [k \in DOMAIN files \ {<<dir, stem>>} |-> files[k]]
    /\ ret' = NoReturn("fs_delete")
    /\ UNCHANGED <<plugins, order, active, registry, pending,
                    reminders, loop, sent>>

Discover(globOrder) ==
    /\ Step
    /\ Leaves(discover_plugins(Manager, files, globOrder))
    /\ ret' = NoReturn("discover")
    /\ UNCHANGED <<files, fsChanges, pending,
                    reminders, loop, sent>>

\* the `plugin rescan` command: discover_plugins, then save_registry
Rescan(globOrder, s) ==
    /\ Step
    /\ LET sv == save_registry(discover_plugins(Manager, files, globOrder), now, s)
       IN  /\ Leaves(sv.m)
           /\ ret' = [NoReturn("rescan") EXCEPT !.saves = <<s>>,
                                                !.raised = sv.raised]
    /\ UNCHANGED <<files, fsChanges, pending,
                    reminders, loop, sent>>

\* load_plugin(name): without the unload step its outcomes are not drawn
LoadPlugin(name, h, s) ==
    LET r == load_plugin(Manager, name, FALSE, now, "ok", "ok", h, s)
    IN  /\ Step
        /\ Leaves(r.m)
        /\ ret' = Returned("load", name, r)
        /\ UNCHANGED <<files, fsChanges, pending,
                        reminders, loop, sent>>

\* load_plugin(name, reload=True)
LoadPluginReload(name, h1, s1, h2, s2) ==
    LET r == load_plugin(Manager, name, TRUE, now, h1, s1, h2, s2)
    IN  /\ Step
        /\ Leaves(r.m)
        /\ ret' = Returned("load_reload", name, r)
        /\ UNCHANGED <<files, fsChanges, pending,
                        reminders, loop, sent>>

UnloadPlugin(name, h, s) ==
    LET r == unload_plugin(Manager, name, now, h, s)
    IN  /\ Step
        /\ Leaves(r.m)
        /\ ret' = Returned("unload", name, r)
        /\ UNCHANGED <<files, fsChanges, pending,
                        reminders, loop, sent>>

ReloadPlugin(name, h, s) ==
    LET r == reload_plugin(Manager, name, now, h, s)
    IN  /\ Step
        /\ Leaves(r.m)
        /\ ret' = Returned("reload", name, r)
        /\ UNCHANGED <<files, fsChanges, pending,
                        reminders, loop, sent>>

SaveRegistry(s) ==
    /\ Step
    /\ LET sv == save_registry(Manager, now, s)
       IN  /\ Leaves(sv.m)
           /\ ret' = [NoReturn("save") EXCEPT !.saves = <<s>>,
                                              !.raised = sv.raised]
    /\ UNCHANGED <<files, fsChanges, pending,
                    reminders, loop, sent>>

LoadRegistry ==
    /\ Step
    /\ Leaves(load_registry(Manager))
    /\ ret' = NoReturn("load_registry")
    /\ UNCHANGED <<files, fsChanges, pending,
                    reminders, loop, sent>>

ReturnedAll(op, r) == [NoReturn(op) EXCEPT !.calls = r.calls,
                                            !.saves = r.saves,
                                            !.results = r.results]

LoadAll(globOrder, outs) ==
    LET r == load_all_plugins(Manager, files, globOrder, now, outs)
    IN  /\ Step
        /\ Leaves(r.m)
        /\ ret' = ReturnedAll("load_all", r)
        /\ UNCHANGED <<files, fsChanges, pending,
                        reminders, loop, sent>>

ReloadAll(outs) ==
    LET r == reload_all_plugins(Manager, now, outs)
    IN  /\ Step
        /\ Leaves(r.m)
        /\ ret' = ReturnedAll("reload_all", r)
        /\ UNCHANGED <<files, fsChanges, pending,
                        reminders, loop, sent>>

GeneralReloadCog(cog_name, h) ==
    LET r == general_reload_cog(Manager, cog_name, h)
    IN  /\ Step
        /\ Leaves(r.m)
        /\ ret' = Returned("general_reload_cog", cog_name[Len(cog_name)], r)
        /\ UNCHANGED <<files, fsChanges, pending,
                        reminders, loop, sent>>

CoreReloadCog(cog_name, h, s) ==
    LET r == core_reload_cog(Manager, cog_name, now, h, s)
    IN  /\ Step
        /\ Leaves(r.m)
        /\ ret' = Returned("core_reload_cog", cog_name[Len(cog_name)], r)
        /\ UNCHANGED <<files, fsChanges, pending,
                        reminders, loop, sent>>

\* the process ends and a new one constructs a fresh PluginManager
Restart ==
    /\ Step
    /\ plugins' = EmptyDict
    /\ order' = <<>>
    /\ active' = {}
    /\ ret' = NoReturn("restart")
    /\ pending' = EmptyDict
    /\ UNCHANGED <<files, registry, fsChanges,
                    reminders, loop, sent>>

\* What the collaborators do during one load, unload or reload: the outcome
\* of the HostRuntime call and, when the call completes, of the registry write
\* that follows it (no write follows a call that raises).
Outcomes ==
    {<<"ok", s>> : s \in SaveOutcomes} \cup {<<"raise", "ok">>}

\* load_plugin(name, reload=True) runs its unload step only on a loaded plugin
UnloadStepOutcomes(name) ==
    IF name \in DOMAIN plugins /\ plugins[name].loaded THEN Outcomes
    ELSE {<<"ok", "ok">>}

\* what the collaborators do for each name during load_all or reload_all
\* (a registry write that fails there is one cut short)
AllOutcomes == [Names -> Outcomes \ {<<"ok", "fail_open">>}]

Next ==
    \/ \E stem \in Names, content \in WrittenContents :
          FsWrite("plugins", stem, content)
    \/ \E dir \in Dirs, stem \in Names : FsDelete(dir, stem)
    \/ \E g \in GlobOrders : Discover(g)
    \/ \E g \in GlobOrders, s \in SaveOutcomes : Rescan(g, s)
    \/ \E name \in NameInputs, o \in Outcomes : LoadPlugin(name, o[1], o[2])
    \/ \E name \in NameInputs :
          \E o1 \in UnloadStepOutcomes(name), o2 \in Outcomes :
              LoadPluginReload(name, o1[1], o1[2], o2[1], o2[2])
    \/ \E name \in NameInputs, o \in Outcomes : UnloadPlugin(name, o[1], o[2])
    \/ \E name \in NameInputs, o \in Outcomes : ReloadPlugin(name, o[1], o[2])
    \/ \E cog_name \in CogNames, h \in HostOutcomes :
          GeneralReloadCog(cog_name, h)
    \/ \E cog_name \in CogNames, o \in Outcomes :
          CoreReloadCog(cog_name, o[1], o[2])
    \/ \E s \in SaveOutcomes : SaveRegistry(s)
    \/ LoadRegistry
    \/ Restart

Spec == Init /\ [][Next]_vars

\* The manager's operations with load_all_plugins and reload_all_plugins,
\* on directories that only lose files
NextAll ==
    \/ \E dir \in Dirs, stem \in Names : FsDelete(dir, stem)
    \/ \E g \in GlobOrders : Discover(g)
    \/ \E name \in NameInputs, o \in Outcomes : LoadPlugin(name, o[1], o[2])
    \/ \E name \in NameInputs, o \in Outcomes : UnloadPlugin(name, o[1], o[2])
    \/ \E name \in NameInputs, o \in Outcomes : ReloadPlugin(name, o[1], o[2])
    \/ \E g \in GlobOrders, outs \in AllOutcomes : LoadAll(g, outs)
    \/ \E outs \in AllOutcomes : ReloadAll(outs)
    \/ LoadRegistry
    \/ Restart

SpecAll == Init /\ [][NextAll]_vars

----------------------------------------------------------------------------
(* Concurrent commands.  load_plugin and unload_plugin are coroutines: at  *)
(* `await self.bot.load_extension(...)` the running command is suspended   *)
(* while the unit's setup runs, and the event loop may start or resume     *)
(* another command.  The table is discovered once, at startup.             *)

\* the commands in flight
Tasks == {"cmd1", "cmd2"}

Suspended(op, name) == [op |-> op, name |-> name, path |-> plugins[name].path]

\* load_plugin(name) from its entry to the await of bot.load_extension
BeginLoad(task, name) ==
    /\ Step
    /\ task \notin DOMAIN pending
    /\ name \in DOMAIN plugins
    /\ pending' = SetKey(pending, task, Suspended("load", name))
    /\ ret' = [NoReturn("begin_load") EXCEPT !.name = name]
    /\ UNCHANGED <<files, fsChanges, plugins, order, active, registry,
                    reminders, loop, sent>>

\* load_plugin(name) from the return of bot.load_extension to its end
FinishLoad(task, h, s) ==
    /\ Step
    /\ task \in DOMAIN pending
    /\ pending[task].op = "load"
    /\ LET r == load_plugin(Manager, pending[task].name, FALSE, now,
                            "ok", "ok", h, s)
       IN  /\ Leaves(r.m)
           /\ ret' = Returned("finish_load", pending[task].name, r)
    /\ pending' = [t \in DOMAIN pending \ {task} |-> pending[t]]
    /\ UNCHANGED <<files, fsChanges,
                    reminders, loop, sent>>

\* unload_plugin(name) from its entry to the await of bot.unload_extension
BeginUnload(task, name) ==
    /\ Step
    /\ task \notin DOMAIN pending
    /\ name \in DOMAIN plugins
    /\ pending' = SetKey(pending, task, Suspended("unload", name))
    /\ ret' = [NoReturn("begin_unload") EXCEPT !.name = name]
    /\ UNCHANGED <<files, fsChanges, plugins, order, active, registry,
                    reminders, loop, sent>>

\* unload_plugin(name) from the return of bot.unload_extension to its end
FinishUnload(task, h, s) ==
    /\ Step
    /\ task \in DOMAIN pending
    /\ pending[task].op = "unload"
    /\ LET r == unload_plugin(Manager, pending[task].name, now, h, s)
       IN  /\ Leaves(r.m)
           /\ ret' = Returned("finish_unload", pending[task].name, r)
    /\ pending' = [t \in DOMAIN pending \ {task} |-> pending[t]]
    /\ UNCHANGED <<files, fsChanges,
                    reminders, loop, sent>>

\* setup_hook's discovery, on the empty table of a new manager
Startup(globOrder) == plugins = EmptyDict /\ Discover(globOrder)

NextConc ==
    \/ \E g \in GlobOrders : Startup(g)
    \/ \E task \in Tasks, name \in Names : BeginLoad(task, name)
    \/ \E task \in Tasks, o \in Outcomes : FinishLoad(task, o[1], o[2])
    \/ \E task \in Tasks, name \in Names : BeginUnload(task, name)
    \/ \E task \in Tasks, o \in Outcomes : FinishUnload(task, o[1], o[2])

SpecConc == Init /\ [][NextConc]_vars

----------------------------------------------------------------------------
(* Properties.  ret tells which operation the last step was; in an action  *)
(* formula the unprimed variables are the state the operation started in.  *)

LifecycleOps == {"load", "load_reload", "unload", "reload"}

\* the last operation was op on a name the table knows
Did(op) == ret.op = op /\ ret.name \in DOMAIN plugins

\* the step is op on a name the table knows
Does(op) == ret'.op = op /\ ret'.name \in DOMAIN plugins

\* the registry writes of the last operation that failed
FailedSaves == {i \in 1..Len(ret.saves) : ret.saves[i] # "ok"}

\* C1: discover(), run directly or by `plugin rescan`, leaves loaded,
\* load_time and error of every name already in the table as they were, and
\* run twice in a row on unchanged directories changes nothing the second
\* time.
C1_DiscoverPreservesStatus ==
    [][ret'.op \in {"discover", "rescan"} =>
          /\ \A n \in DOMAIN plugins :
                /\ n \in DOMAIN plugins'
                /\ plugins'[n].loaded = plugins[n].loaded
                /\ plugins'[n].load_time = plugins[n].load_time
                /\ plugins'[n].error = plugins[n].error
          /\ (ret.op = "discover" /\ ret'.op = "discover") => plugins' = plugins
       ]_vars

\* C2: load(X) on a loaded X returns false, attempts no activation and
\* leaves the descriptor (loaded, load_time, error) as it was.
C2_LoadLoadedNoEffect ==
    [][(Does("load") /\ plugins[ret'.name].loaded) =>
          /\ ~ret'.ok
          /\ ret'.calls = <<>>
          /\ plugins'[ret'.name] = plugins[ret'.name]
       ]_vars

\* C3: reload(X) on a loaded X that fails leaves loaded = false and error
\* set.
C3_FailedReloadUnloads ==
    [][(Does("reload") /\ plugins[ret'.name].loaded /\ ~ret'.ok) =>
          /\ ~plugins'[ret'.name].loaded
          /\ plugins'[ret'.name].error # None
       ]_vars

\* C4: unload(X) on a known X that is not loaded returns false, attempts no
\* deactivation and leaves the descriptor as it was.
C4_UnloadNotLoadedNoEffect ==
    [][(Does("unload") /\ ~plugins[ret'.name].loaded) =>
          /\ ~ret'.ok
          /\ ret'.calls = <<>>
          /\ plugins'[ret'.name] = plugins[ret'.name]
       ]_vars

\* C5: load, unload and reload of a name that is not in the table return
\* false, call HostRuntime not at all, and leave the table and the registry
\* document as they were.
C5_UnknownNameNoEffect ==
    [][(ret'.op \in LifecycleOps /\ ret'.name \notin DOMAIN plugins) =>
          /\ ~ret'.ok
          /\ ret'.calls = <<>>
          /\ ret'.saves = <<>>
          /\ plugins' = plugins
          /\ order' = order
          /\ active' = active
          /\ registry' = registry
       ]_vars

\* a load of an unknown name has just returned, on a table that knows others
C5_Witness ==
    /\ ret.op = "load"
    /\ ret.name \notin DOMAIN plugins
    /\ ~ret.ok
    /\ plugins # EmptyDict

\* C6: for a known name, a load or reload returns true exactly when the
\* activation completes, and then leaves loaded = true, load_time = the time
\* of the call and no error; a load that returns false leaves loaded = false
\* and an error.  So after a load attempt loaded = true implies no error.
C6_LoadOutcome ==
    \A op \in {"load", "load_reload", "reload"} :
        Did(op) =>
            LET p == plugins[ret.name]
            IN  /\ ret.calls # <<>>
                /\ ret.ok = (ret.calls[Len(ret.calls)][3] = None)
                /\ ret.ok => p.loaded /\ p.load_time = steps /\ p.error = None
                /\ (~ret.ok /\ op # "reload") => ~p.loaded /\ p.error # None
                /\ op # "reload" => (p.loaded => p.error = None)

\* a load of a known plugin has just returned true, at a time later than
\* the plugin's first discovery
C6_Witness ==
    /\ Did("load")
    /\ ret.ok
    /\ plugins[ret.name].loaded
    /\ plugins[ret.name].load_time = steps
    /\ steps >= 3

\* C7: unload(X) on a loaded X returns true exactly when the deactivation
\* completes, and then leaves loaded = false and no error; when the
\* deactivation raises it records the error and leaves loaded = true.
C7_UnloadOutcome ==
    [][(Does("unload") /\ plugins[ret'.name].loaded) =>
          /\ Len(ret'.calls) = 1
          /\ ret'.calls[1][1] = "unload_extension"
          /\ ret'.ok = (ret'.calls[1][3] = None)
          /\ ret'.ok =>
                ~plugins'[ret'.name].loaded /\ plugins'[ret'.name].error = None
          /\ ~ret'.ok =>
                plugins'[ret'.name].loaded /\ plugins'[ret'.name].error # None
       ]_vars

\* an unload of a loaded plugin has just failed
C7_Witness ==
    /\ Did("unload")
    /\ ~ret.ok
    /\ plugins[ret.name].loaded
    /\ plugins[ret.name].error # None

\* C8: when load, unload or reload of a known name returns and no registry
\* write of it failed, the document holds every descriptor as the table has
\* it, the error of a failed attempt included.
C8_EveryAttemptPersists ==
    \A op \in LifecycleOps :
        (Did(op) /\ FailedSaves = {}) =>
            /\ registry.state = "ok"
            /\ DOMAIN registry.plugins = DOMAIN plugins
            /\ \A n \in DOMAIN plugins : registry.plugins[n] = to_dict(plugins[n])

\* two runs of an operation end alike but for the registry document
SameButDocument(r1, r0) ==
    /\ r1.ok = r0.ok
    /\ r1.calls = r0.calls
    /\ r1.m.plugins = r0.m.plugins
    /\ r1.m.order = r0.m.order
    /\ r1.m.active = r0.m.active

\* C9: when a registry write of load, unload or reload fails, the operation
\* still returns what the HostRuntime call decided and the descriptor is
\* updated as on a successful write; started in any reachable state, each
\* operation ends as it would have ended had its writes succeeded, but for
\* the document.
C9_SaveFailureNotFatal ==
    /\ \A op \in LifecycleOps :
          (Did(op) /\ FailedSaves # {}) =>
              LET p == plugins[ret.name]
                  last == ret.calls[Len(ret.calls)]
              IN  /\ ret.ok = (last[3] = None)
                  /\ (ret.ok /\ op = "unload") => ~p.loaded /\ p.error = None
                  /\ (ret.ok /\ op # "unload") =>
                        p.loaded /\ p.load_time = steps /\ p.error = None
                  /\ ~ret.ok => p.error = last[3]
    /\ \A name \in DOMAIN plugins, o \in Outcomes :
          /\ SameButDocument(unload_plugin(Manager, name, now, o[1], o[2]),
                             unload_plugin(Manager, name, now, o[1], "ok"))
          /\ SameButDocument(reload_plugin(Manager, name, now, o[1], o[2]),
                             reload_plugin(Manager, name, now, o[1], "ok"))
          /\ \A o1 \in UnloadStepOutcomes(name) :
                SameButDocument(
                    load_plugin(Manager, name, TRUE, now, o1[1], o1[2], o[1], o[2]),
                    load_plugin(Manager, name, TRUE, now, o1[1], "ok", o[1], "ok"))

\* a load has just returned true although its registry write was cut short
C9_Witness ==
    /\ Did("load")
    /\ ret.saves = <<"fail_write">>
    /\ ret.ok
    /\ plugins[ret.name].loaded
    /\ registry.state = "partial"

\* to_dict's text of an error slot
ErrorText(e) == IF e # None THEN str(e) ELSE Null

\* a fresh manager beside the document a successful save of the table leaves
FreshManager ==
    [plugins |-> EmptyDict, order |-> <<>>, active |-> {},
     registry |-> save_registry(Manager, now, "ok").m.registry]

\* C10: save(table), then load() into a fresh manager, yields one descriptor
\* per saved name, with the same name, path, metadata and error text, and
\* loaded = false.
C10_RoundTrip ==
    LET restored == load_registry(FreshManager).plugins
    IN  /\ DOMAIN restored = DOMAIN plugins
        /\ \A n \in DOMAIN plugins :
              /\ restored[n].name = plugins[n].name
              /\ restored[n].path = plugins[n].path
              /\ restored[n].metadata = plugins[n].metadata
              /\ ErrorText(restored[n].error) = ErrorText(plugins[n].error)
              /\ restored[n].loaded = FALSE

\* C11: load_registry leaves every descriptor it restores with loaded =
\* false, whatever loaded is in the document, and no HostRuntime call is
\* made; on an absent document it returns leaving the table as it was (empty
\* at startup).
C11_LoadNeverTrustsLoaded ==
    [][ret'.op = "load_registry" =>
          /\ registry.state = "ok" =>
                \A n \in DOMAIN registry.plugins :
                    n \in DOMAIN plugins' /\ ~plugins'[n].loaded
          /\ registry.state = "absent" => plugins' = plugins /\ order' = order
          /\ (registry.state = "absent" /\ ret.op \in {"init", "restart"}) =>
                plugins' = EmptyDict
          /\ ret'.calls = <<>>
          /\ active' = active
          /\ registry' = registry
       ]_vars

\* load_registry has just restored a descriptor the document has as loaded
C11_Witness ==
    /\ ret.op = "load_registry"
    /\ registry.state = "ok"
    /\ \E n \in DOMAIN registry.plugins :
          registry.plugins[n].loaded /\ ~plugins[n].loaded

\* C12: a reader of the registry document never finds it partially written:
\* whatever a step does, save_registry that fails part-way included, the
\* document afterwards is the complete document it was before or a complete
\* new one.
C12_SaveAtomic ==
    [][registry' = registry \/ registry'.state = "ok"]_vars

\* C13: operations on the table are serialized: an operation suspended in
\* an await of HostRuntime completes before another operation begins, so at
\* no time are two operations in flight.
C13_Serialized == Cardinality(DOMAIN pending) <= 1

\* C14: in every reachable state a descriptor with loaded = true is of a
\* unit HostRuntime has active.
C14_LoadedImpliesActive ==
    \A n \in DOMAIN plugins : plugins[n].loaded => plugins[n].path \in active

\* reload_all has just failed to reload a plugin, which stays loaded and
\* active, beside a unit that is active with a descriptor that is not loaded
C14_Witness ==
    /\ ret.op = "reload_all"
    /\ \E i \in 1..Len(ret.results) :
          /\ ~ret.results[i][2]
          /\ plugins[ret.results[i][1]].loaded
          /\ plugins[ret.results[i][1]].path \in active
    /\ \E n \in DOMAIN plugins : ~plugins[n].loaded /\ plugins[n].path \in active

\* C15: every activation or reload of a plugin's unit in HostRuntime goes
\* through PluginManager and updates the unit's descriptor: when a step's
\* load_extension or reload_extension call on the path of a known plugin
\* completes, the descriptor afterwards has loaded = true, load_time = the
\* time of the call and no error.
C15_ManagerIsSoleAuthority ==
    [][\A i \in 1..Len(ret'.calls) : \A n \in DOMAIN plugins' :
          (/\ ret'.calls[i][1] \in {"load_extension", "reload_extension"}
           /\ ret'.calls[i][2] = plugins'[n].path
           /\ ret'.calls[i][3] = None) =>
              /\ plugins'[n].loaded
              /\ plugins'[n].load_time = steps'
              /\ plugins'[n].error = None
       ]_vars

\* dependency declarations to probe the table with: up to two of the names
\* of the plugins and of a plugin that does not exist
DepWords == {<<"general">>, <<"example">>, <<"ghost">>}
DepLists == {<<>>} \cup {<<d>> : d \in DepWords}
                   \cup {<<d1, d2>> : d1 \in DepWords, d2 \in DepWords}

\* dep names a plugin of the table that is loaded
Satisfied(dep) == \E n \in DOMAIN plugins : <<n>> = dep /\ plugins[n].loaded

\* the dependencies the descriptor of name declares
Declared(name) ==
    IF name \in DOMAIN plugins /\ "dependencies" \in DOMAIN plugins[name].metadata
    THEN plugins[name].metadata["dependencies"]
    ELSE <<>>

Unsatisfied(deps) == SelectSeq(deps, LAMBDA d : ~Satisfied(d))

\* C16: check_dependencies(X) is the declared dependencies of X, in declared
\* order, that are not in the table or in it but not loaded (whatever those
\* plugins depend on themselves), and the empty list when X is unknown or
\* declares none; the same holds of any declaration checked against the
\* table.
C16_CheckDependencies ==
    /\ \A name \in NameInputs :
          check_dependencies(Manager, name) = Unsatisfied(Declared(name))
    /\ \A deps \in DepLists : missing_deps(Manager, deps) = Unsatisfied(deps)

\* example declares general, general has just been loaded, and
\* check_dependencies("example") is empty where it was [general] before
C16_Witness ==
    /\ Did("load")
    /\ ret.name = "general"
    /\ ret.ok
    /\ Declared("example") = << <<"general">> >>
    /\ check_dependencies(Manager, "example") = <<>>
    /\ check_dependencies([Manager EXCEPT !.plugins["general"].loaded = FALSE],
                          "example") = << <<"general">> >>

\* the stems of the plugin files on disk
OnDisk ==
    {stem \in Names : \E dir \in Dirs : <<dir, stem>> \in DOMAIN files}

\* C17: load_all discovers first, so that afterwards the table knows the
\* names it knew before and the names on disk; it then calls load_extension
\* exactly once for every name of the table, in the table's order, whether
\* or not earlier loads failed, and returns one entry per name, in that
\* order, whose value tells whether that name's load completed.
C17_LoadAll ==
    [][ret'.op = "load_all" =>
          /\ DOMAIN plugins' = DOMAIN plugins \cup OnDisk
          /\ Len(order') = Cardinality(DOMAIN plugins')
          /\ Len(ret'.results) = Len(order')
          /\ Len(ret'.calls) = Len(order')
          /\ \A i \in 1..Len(order') :
                /\ ret'.results[i][1] = order'[i]
                /\ ret'.calls[i][1] = "load_extension"
                /\ ret'.calls[i][2] = plugins'[order'[i]].path
                /\ ret'.results[i][2] = (ret'.calls[i][3] = None)
                /\ ret'.results[i][2] = plugins'[order'[i]].loaded
       ]_vars

\* load_all has just returned: the first name, known from before and no
\* longer on disk, failed to load, and the name after it was loaded
C17_Witness ==
    /\ ret.op = "load_all"
    /\ Len(ret.results) = 2
    /\ ret.results[1][1] \notin OnDisk
    /\ ~ret.results[1][2]
    /\ ret.results[2][2]
    /\ plugins[ret.results[2][1]].loaded

\* the names of the table, in its order, whose descriptor is loaded
LoadedNames == SelectSeq(order, LAMBDA n : plugins[n].loaded)

\* C18: reload_all calls reload_extension exactly once for every name whose
\* descriptor is loaded when it starts, in the table's order, and for no
\* other name; the result has one entry for each of those names and none
\* for a name that is not loaded.
C18_ReloadAll ==
    [][ret'.op = "reload_all" =>
          /\ Len(ret'.results) = Len(LoadedNames)
          /\ Len(ret'.calls) = Len(LoadedNames)
          /\ \A i \in 1..Len(LoadedNames) :
                /\ ret'.results[i][1] = LoadedNames[i]
                /\ ret'.calls[i][1] = "reload_extension"
                /\ ret'.calls[i][2] = plugins[LoadedNames[i]].path
                /\ ret'.results[i][2] = (ret'.calls[i][3] = None)
          /\ \A n \in DOMAIN plugins :
                ~plugins[n].loaded => plugins'[n] = plugins[n]
       ]_vars

\* reload_all has just returned one entry, for the one plugin of two that
\* is loaded; the unit of the other is active but its descriptor not loaded
C18_Witness ==
    /\ ret.op = "reload_all"
    /\ Len(ret.results) = 1
    /\ Cardinality(DOMAIN plugins) = 2
    /\ plugins[ret.results[1][1]].loaded
    /\ \E n \in DOMAIN plugins : ~plugins[n].loaded /\ plugins[n].path \in active

\* text is a percentage with one decimal place, the nearest to loaded/total
IsPercentOf(text, loaded, total) ==
    /\ Len(text) = 4
    /\ text[2] = "."
    /\ text[4] = "%"
    /\ \E w \in 0..100 :
          /\ text[1] = ToString(w)
          /\ \E d \in 0..9 :
                /\ text[3] = ToString(d)
                /\ 2 * ((10 * w + d) * total - 1000 * loaded) <= total
                /\ 2 * (1000 * loaded - (10 * w + d) * total) <= total

\* C19: get_plugin_stats returns the number of descriptors, the number that
\* are loaded (never more than the total), the number that have an error,
\* and loaded/total as a percentage with one decimal place; on an empty
\* table it returns zeros and "0%".  The percentage stays the nearest tenth
\* when the table grows to up to MaxTotal descriptors with as many loaded.
C19_Stats ==
    LET st == get_plugin_stats(Manager)
    IN  /\ st.total_plugins = Cardinality(DOMAIN plugins)
        /\ st.loaded_plugins =
              Cardinality({n \in DOMAIN plugins : plugins[n].loaded})
        /\ st.failed_plugins =
              Cardinality({n \in DOMAIN plugins : plugins[n].error # None})
        /\ st.loaded_plugins <= st.total_plugins
        /\ plugins = EmptyDict =>
              /\ st.total_plugins = 0
              /\ st.loaded_plugins = 0
              /\ st.failed_plugins = 0
              /\ st.success_rate = <<"0", "%">>
        /\ plugins # EmptyDict =>
              IsPercentOf(st.success_rate, st.loaded_plugins, st.total_plugins)
        /\ \A total \in st.total_plugins..MaxTotal :
              total > 0 =>
                  IsPercentOf(Format1f(st.loaded_plugins, total),
                              st.loaded_plugins, total)

\* one of two plugins is loaded and the other has failed: 50.0%
C19_Witness ==
    /\ Cardinality(DOMAIN plugins) = 2
    /\ get_plugin_stats(Manager).loaded_plugins = 1
    /\ get_plugin_stats(Manager).failed_plugins = 1
    /\ get_plugin_stats(Manager).success_rate = <<"50", ".", "0", "%">>
    /\ \E n \in DOMAIN plugins : ~plugins[n].loaded /\ plugins[n].error # None

\* the last of the configured directories that has a file of this stem
LastDirWith(stem) ==
    LET has == {i \in 1..Len(plugin_dirs) : <<plugin_dirs[i], stem>> \in DOMAIN files}
    IN  plugin_dirs[CHOOSE i \in has : \A j \in has : j <= i]

\* C20: every key of the table maps to the descriptor of that name, and the
\* table's order lists each key once; after discover_plugins the descriptor
\* of a stem found on disk is the one of the last configured directory that
\* has the stem.
C20_NameIsKey ==
    /\ \A k \in DOMAIN plugins : plugins[k].name = k
    /\ Len(order) = Cardinality(DOMAIN plugins)
    /\ {order[i] : i \in 1..Len(order)} = DOMAIN plugins
    /\ ret.op \in {"discover", "rescan"} =>
          \A stem \in OnDisk :
              /\ stem \in DOMAIN plugins
              /\ plugins[stem].path = <<LastDirWith(stem), stem>>

\* a discovery has just found general in both directories and kept the
\* descriptor of plugins/general
C20_Witness ==
    /\ ret.op \in {"discover", "rescan"}
    /\ <<"cogs", "general">> \in DOMAIN files
    /\ <<"plugins", "general">> \in DOMAIN files
    /\ plugins["general"].name = "general"
    /\ plugins["general"].path = <<"plugins", "general">>

\* C21 as stated: no operation of a manager removes a name from the table,
\* and after discover_plugins a name of the table whose file is not on disk
\* is still in the table, with loaded = false.
C21_OrphansUnloaded ==
    [][ret'.op # "restart" =>
          /\ DOMAIN plugins \subseteq DOMAIN plugins'
          /\ ret'.op \in {"discover", "rescan"} =>
                \A n \in DOMAIN plugins \ OnDisk :
                    n \in DOMAIN plugins' /\ ~plugins'[n].loaded
       ]_vars

\* C21, amended: no operation of a manager removes a name from the table,
\* and after discover_plugins a name of the table whose file is not on disk
\* is still in the table with the descriptor it had: not loaded if it was
\* restored from the registry or not loaded, loaded if it was loaded.
C21_NeverDeleted ==
    [][ret'.op # "restart" =>
          /\ DOMAIN plugins \subseteq DOMAIN plugins'
          /\ ret'.op \in {"discover", "rescan"} =>
                \A n \in DOMAIN plugins \ OnDisk :
                    n \in DOMAIN plugins' /\ plugins'[n] = plugins[n]
          /\ ret'.op = "load_registry" =>
                \A n \in DOMAIN plugins' \ DOMAIN plugins : ~plugins'[n].loaded
       ]_vars

\* a discovery has just run and left in the table, still loaded, a name
\* whose file is gone
C21_Witness ==
    /\ ret.op \in {"discover", "rescan"}
    /\ \E n \in DOMAIN plugins \ OnDisk : plugins[n].loaded
    /\ OnDisk # {}

\* the HostRuntime calls of the last operation that raised
FailedCalls == {i \in 1..Len(ret.calls) : ret.calls[i][3] # None}

\* C22 as stated: no operation ends by raising, and whenever a HostRuntime
\* call or a registry write of load, unload or reload fails, the descriptor
\* has an error afterwards.
C22_EveryFailureInError ==
    /\ ~ret.raised
    /\ \A op \in LifecycleOps :
          (Did(op) /\ (FailedCalls # {} \/ FailedSaves # {})) =>
              plugins[ret.name].error # None

\* C22, amended: no operation ends by raising; whenever a HostRuntime call
\* of load, unload or reload fails, and whenever one of them returns false
\* for a known name, the descriptor has an error afterwards, the text of the
\* exception HostRuntime raised.  (A failed registry write leaves no trace
\* in the descriptor.)
C22_NoFaultPropagates ==
    /\ ~ret.raised
    /\ \A op \in LifecycleOps :
          (Did(op) /\ (FailedCalls # {} \/ ~ret.ok)) =>
              /\ FailedCalls # {}
              /\ ~ret.ok
              /\ plugins[ret.name].error = ret.calls[Len(ret.calls)][3]
              /\ to_dict(plugins[ret.name]).error = str(ExtensionError)

\* a reload has just failed in HostRuntime and returned false, with the
\* error in the descriptor
C22_Witness ==
    /\ Did("reload")
    /\ ~ret.ok
    /\ ~ret.raised
    /\ FailedCalls = {1}
    /\ plugins[ret.name].error = ExtensionError

\* C23: load_plugin does not look at dependencies: every load of a known
\* name makes exactly one load_extension call, and the load of a plugin that
\* is not loaded and whose unit is not active completes when HostRuntime
\* completes, whatever check_dependencies says of it.
C23_LoadIgnoresDependencies ==
    /\ Did("load") =>
          /\ Len(ret.calls) = 1
          /\ ret.calls[1][1] = "load_extension"
          /\ ret.calls[1][2] = plugins[ret.name].path
    /\ \A name \in DOMAIN plugins :
          (~plugins[name].loaded /\ plugins[name].path \notin active) =>
              LET r == load_plugin(Manager, name, FALSE, now, "ok", "ok", "ok", "ok")
              IN  /\ r.ok
                  /\ r.calls = << <<"load_extension", plugins[name].path, None>> >>
                  /\ r.m.plugins[name].loaded

\* example has just been loaded although general, which it declares as a
\* dependency, is not loaded
C23_Witness ==
    /\ Did("load")
    /\ ret.name = "example"
    /\ ret.ok
    /\ plugins["example"].loaded
    /\ check_dependencies(Manager, "example") = << <<"general">> >>

----------------------------------------------------------------------------
(* Metadata extraction over a bounded set of plugin files *)

ProbeLines ==
    { <<"# Version:", " ", "2.0">>,
      <<" ", "# Dependencies:", " ", "general", ",", " ", ",">>,
      <<"# Dependencies:", "a", " ", "b", ",", ",", " ", "c", " ">>,
      <<"# Plugin:">>,
      <<" ", "# Author:", " ", "x", " ", "y", " ">>,
      <<"#", " ", "Version:", "2.0">>,
      <<"import", " ", "logging">>,
      <<>> }

Filler(n) == [i \in 1..n |-> <<"import", " ", "logging">>]

\* files longer than the window the extractor reads
LongFiles ==
    { [readable |-> TRUE,
       lines |-> Filler(49) \o << <<"# Dependencies:", "a", ",", ",", "b">>,
                                  <<"# Plugin:", " ", "late">> >>],
      [readable |-> TRUE,
       lines |-> Filler(50) \o << <<"# Version:", " ", "2.0">> >>] }

ProbeFiles ==
    {Unreadable} \cup LongFiles
    \cup {[readable |-> TRUE, lines |-> <<>>]}
    \cup {[readable |-> TRUE, lines |-> <<a>>] : a \in ProbeLines}
    \cup {[readable |-> TRUE, lines |-> <<a, b>>] : a \in ProbeLines, b \in ProbeLines}

ProbePath == <<"plugins", "example">>

InitMeta ==
    /\ files \in {[k \in {ProbePath} |-> f] : f \in ProbeFiles}
    /\ plugins = EmptyDict
    /\ order = <<>>
    /\ active = {}
    /\ registry = NoDocument
    /\ fsChanges = 0
    /\ steps = 0
    /\ ret = NoReturn("init")
    /\ pending = EmptyDict
    /\ InitReminders

NextMeta == \E g \in GlobOrders : Discover(g)

SpecMeta == InitMeta /\ [][NextMeta]_vars

KeyPrefixes ==
    {"# Plugin:", "# Version:", "# Author:", "# Description:",
     "# Dependencies:", "# Permissions:"}

IsBlank(s) == \A i \in 1..Len(s) : s[i] = " "

\* v is t without its leading and trailing blanks
IsTrimOf(v, t) ==
    /\ v # <<>> => (v[1] # " " /\ v[Len(v)] # " ")
    /\ \E i \in 1..(Len(t) + 1) : \E j \in (i - 1)..Len(t) :
          /\ SubSeq(t, i, j) = v
          /\ IsBlank(SubSeq(t, 1, i - 1))
          /\ IsBlank(SubSeq(t, j + 1, Len(t)))

\* the line with its leading blanks removed begins with a recognized key
Recognized(line) ==
    \E i \in 1..Len(line) :
        /\ IsBlank(SubSeq(line, 1, i - 1))
        /\ line[i] \in KeyPrefixes

KeyAt(line) ==
    LET i == CHOOSE i \in 1..Len(line) : line[i] # " "
    IN  MetadataKey(line[i])

TextAt(line) ==
    LET i == CHOOSE i \in 1..Len(line) : line[i] # " "
    IN  SubSeq(line, i + 1, Len(line))

\* the comma-separated pieces of t that hold something, by the position
\* before their first token
PieceStarts(t) ==
    LET cuts == {0} \cup {i \in 1..Len(t) : t[i] = ","}
        end(s) == IF \E p \in cuts : p > s
                  THEN (CHOOSE p \in cuts : p > s /\ \A q \in cuts : q > s => p <= q) - 1
                  ELSE Len(t)
    IN  {s \in cuts : ~IsBlank(SubSeq(t, s + 1, end(s)))}

PieceAt(t, s) ==
    LET after == {i \in (s + 1)..Len(t) : t[i] = ","}
        e == IF after = {} THEN Len(t)
             ELSE (CHOOSE p \in after : \A q \in after : p <= q) - 1
    IN  SubSeq(t, s + 1, e)

\* deps is the list of the non-empty pieces of t, trimmed, in their order
IsDependencyListOf(deps, t) ==
    LET starts == PieceStarts(t)
    IN  /\ Len(deps) = Cardinality(starts)
        /\ \A s \in starts :
              IsTrimOf(deps[Cardinality({q \in starts : q <= s})], PieceAt(t, s))

\* C25: metadata extraction returns for every file, the unreadable one
\* included; the result has a field exactly for the recognized key lines
\* among the first 50 lines, each holding the trimmed text after the key,
\* the Dependencies text split on commas, trimmed, without empty entries and
\* in order; a file that is unreadable or has no recognized line gives the
\* empty metadata object
C25_MetadataExtraction ==
    ret.op = "discover" =>
        LET file == files[ProbePath]
            md == plugins["example"].metadata
            window == {i \in 1..Len(file.lines) : i <= 50}
            hits == {i \in window : Recognized(file.lines[i])}
            last(k) == CHOOSE i \in hits :
                          /\ KeyAt(file.lines[i]) = k
                          /\ \A j \in hits : KeyAt(file.lines[j]) = k => j <= i
        IN  /\ ~file.readable => md = EmptyDict
            /\ file.readable =>
                  /\ DOMAIN md = {KeyAt(file.lines[i]) : i \in hits}
                  /\ hits = {} => md = EmptyDict
                  /\ \A k \in DOMAIN md :
                        IF k = "dependencies"
                        THEN IsDependencyListOf(md[k], TextAt(file.lines[last(k)]))
                        ELSE IsTrimOf(md[k], TextAt(file.lines[last(k)]))

\* a file whose 50th line declares dependencies with an empty entry and
\* whose 51st line declares a name has been discovered
C25_Witness ==
    /\ ret.op = "discover"
    /\ Len(files[ProbePath].lines) > 50
    /\ Recognized(files[ProbePath].lines[51])
    /\ DOMAIN plugins["example"].metadata = {"dependencies"}
    /\ plugins["example"].metadata.dependencies = << <<"a">>, <<"b">> >>

----------------------------------------------------------------------------
(* The `plugin list` command *)

get_available_plugins(m) == [i \in 1..Len(m.order) |-> m.plugins[m.order[i]]]

IsLoaded(p) == p.loaded
IsUnloaded(p) == ~p.loaded /\ p.error = None
IsFailed(p) == p.error # None

\* the three groups of the embed and the total of its footer; the command
\* answers with a plain message when the table is empty
list_plugins(m) ==
    LET all == get_available_plugins(m)
    IN  [found |-> all # <<>>,
         loaded_plugins |-> SelectSeq(all, IsLoaded),
         unloaded_plugins |-> SelectSeq(all, IsUnloaded),
         failed_plugins |-> SelectSeq(all, IsFailed),
         total |-> Len(all)]

Listed(group, n) == \E i \in 1..Len(group) : group[i].name = n

\* C26: `plugin list` shows every known plugin in exactly one of the groups
\* Loaded, Available and Failed, and the three group sizes add up to the
\* total of the footer
C26_ListPartitions ==
    LET l == list_plugins(Manager)
    IN  /\ \A n \in DOMAIN plugins :
              /\ Listed(l.loaded_plugins, n) \/ Listed(l.unloaded_plugins, n)
                    \/ Listed(l.failed_plugins, n)
              /\ ~(Listed(l.loaded_plugins, n) /\ Listed(l.unloaded_plugins, n))
              /\ ~(Listed(l.loaded_plugins, n) /\ Listed(l.failed_plugins, n))
              /\ ~(Listed(l.unloaded_plugins, n) /\ Listed(l.failed_plugins, n))
        /\ Len(l.loaded_plugins) + Len(l.unloaded_plugins) + Len(l.failed_plugins)
              = l.total

----------------------------------------------------------------------------
(* The `plugin` command group: load, unload, reload, rescan *)

\* a command that answers with a message and returns before calling the manager
Refused(m) == Result(m, FALSE, <<>>, <<>>)

\* the `plugin load` command without its dependency check
plugin_load_command_no_deps(m, plugin_name, t, h, s) ==
    IF plugin_name \notin DOMAIN m.plugins THEN Refused(m)
    ELSE IF m.plugins[plugin_name].loaded THEN Refused(m)
    ELSE load_plugin(m, plugin_name, FALSE, t, "ok", "ok", h, s)

plugin_load_command(m, plugin_name, t, h, s) ==
    IF plugin_name \notin DOMAIN m.plugins THEN Refused(m)
    ELSE IF m.plugins[plugin_name].loaded THEN Refused(m)
    ELSE IF check_dependencies(m, plugin_name) # <<>> THEN Refused(m)
    ELSE load_plugin(m, plugin_name, FALSE, t, "ok", "ok", h, s)

critical_plugins == {"general", "settings", "plugin_management"}

\* the `plugin unload` command without its list of critical plugins
plugin_unload_command_any(m, plugin_name, t, h, s) ==
    IF plugin_name \notin DOMAIN m.plugins THEN Refused(m)
    ELSE IF ~m.plugins[plugin_name].loaded THEN Refused(m)
    ELSE unload_plugin(m, plugin_name, t, h, s)

plugin_unload_command(m, plugin_name, t, h, s) ==
    IF plugin_name \notin DOMAIN m.plugins THEN Refused(m)
    ELSE IF ~m.plugins[plugin_name].loaded THEN Refused(m)
    ELSE IF plugin_name \in critical_plugins THEN Refused(m)
    ELSE unload_plugin(m, plugin_name, t, h, s)

\* `plugin reload <name>`
plugin_reload_command(m, plugin_name, t, h, s) ==
    IF plugin_name \notin DOMAIN m.plugins THEN Refused(m)
    ELSE reload_plugin(m, plugin_name, t, h, s)

CmdLoad(name, h, s) ==
    LET r == plugin_load_command(Manager, name, now, h, s)
    IN  /\ Step
        /\ Leaves(r.m)
        /\ ret' = Returned("cmd_load", name, r)
        /\ UNCHANGED <<files, fsChanges, pending,
                        reminders, loop, sent>>

CmdUnload(name, h, s) ==
    LET r == plugin_unload_command(Manager, name, now, h, s)
    IN  /\ Step
        /\ Leaves(r.m)
        /\ ret' = Returned("cmd_unload", name, r)
        /\ UNCHANGED <<files, fsChanges, pending,
                        reminders, loop, sent>>

CmdReload(name, h, s) ==
    LET r == plugin_reload_command(Manager, name, now, h, s)
    IN  /\ Step
        /\ Leaves(r.m)
        /\ ret' = Returned("cmd_reload", name, r)
        /\ UNCHANGED <<files, fsChanges, pending,
                        reminders, loop, sent>>

\* `plugin reload` without a name
CmdReloadAll(outs) ==
    LET r == reload_all_plugins(Manager, now, outs)
    IN  /\ Step
        /\ Leaves(r.m)
        /\ ret' = ReturnedAll("cmd_reload_all", r)
        /\ UNCHANGED <<files, fsChanges, pending,
                        reminders, loop, sent>>

NextCmd ==
    \/ \E g \in GlobOrders : Startup(g)
    \/ \E name \in NameInputs, o \in Outcomes : CmdLoad(name, o[1], o[2])
    \/ \E name \in NameInputs, o \in Outcomes : CmdUnload(name, o[1], o[2])
    \/ \E name \in NameInputs, o \in Outcomes : CmdReload(name, o[1], o[2])
    \/ \E outs \in AllOutcomes : CmdReloadAll(outs)
    \/ \E g \in GlobOrders, s \in SaveOutcomes : Rescan(g, s)

SpecCmd == Init /\ [][NextCmd]_vars

\* C27: `plugin load <name>` calls HostRuntime activation, once and for the
\* plugin's unit, exactly when the name is known, its descriptor is not
\* loaded and every dependency it declares is in the table and loaded; in
\* every other case it calls nothing and leaves table, host and registry as
\* they were
C27_LoadCommandGate ==
    [][ret'.op = "cmd_load" =>
          LET name == ret'.name
              gate == /\ name \in DOMAIN plugins
                      /\ ~plugins[name].loaded
                      /\ \A i \in 1..Len(Declared(name)) : Satisfied(Declared(name)[i])
          IN  /\ gate =>
                    /\ Len(ret'.calls) = 1
                    /\ ret'.calls[1][1] = "load_extension"
                    /\ ret'.calls[1][2] = plugins[name].path
              /\ ~gate =>
                    /\ ret'.calls = <<>>
                    /\ ret'.saves = <<>>
                    /\ ~ret'.ok
                    /\ UNCHANGED <<plugins, order, active, registry>>
       ]_vars

\* `plugin load example` has been refused because the dependency it
\* declares, general, is known but not loaded
C27_Witness ==
    /\ ret.op = "cmd_load"
    /\ ret.name = "example"
    /\ ret.calls = <<>>
    /\ Declared("example") = << <<"general">> >>
    /\ ~plugins["example"].loaded
    /\ "general" \in DOMAIN plugins
    /\ ~plugins["general"].loaded

CriticalPath(path) == path[2] \in critical_plugins

\* C28: no `plugin` command calls HostRuntime deactivation for general,
\* settings or plugin_management or takes the unit of one of them out of
\* the active set, and `plugin unload` naming one of them leaves the table
\* as it was
C28_CriticalNeverDeactivated ==
    [][/\ \A i \in 1..Len(ret'.calls) :
              ret'.calls[i][1] = "unload_extension" => ~CriticalPath(ret'.calls[i][2])
       /\ \A path \in active : CriticalPath(path) => path \in active'
       /\ (ret'.op = "cmd_unload" /\ ret'.name \in critical_plugins) =>
              /\ ret'.calls = <<>>
              /\ UNCHANGED <<plugins, order, active, registry>>
      ]_vars

\* `plugin unload general` has been refused while general is loaded and active
C28_Witness ==
    /\ ret.op = "cmd_unload"
    /\ ret.name = "general"
    /\ ret.calls = <<>>
    /\ "general" \in DOMAIN plugins
    /\ plugins["general"].loaded
    /\ <<"cogs", "general">> \in active

\* C29: load_plugin(name, reload=True) on a plugin that is loaded and whose
\* unit HostRuntime has active returns, whether the deactivation fails, the
\* activation fails or both succeed (every registry write completing), with
\* the descriptor's loaded flag equal to whether HostRuntime has the unit
\* active, and with an error whenever loaded is false
C29_ReloadLoadConsistent ==
    [][(/\ ret'.op = "load_reload"
        /\ ret'.name \in DOMAIN plugins
        /\ plugins[ret'.name].loaded
        /\ plugins[ret'.name].path \in active
        /\ \A i \in 1..Len(ret'.saves) : ret'.saves[i] = "ok") =>
          LET p == plugins'[ret'.name]
          IN  /\ p.loaded <=> p.path \in active'
              /\ ~p.loaded => p.error # None
       ]_vars

----------------------------------------------------------------------------
(* The reminder loop *)

PluginsIdle ==
    UNCHANGED <<files, plugins, order, active, registry, fsChanges, steps, ret,
                pending>>

\* the orders in which a SELECT without ORDER BY may return the rows S
Orderings(S) ==
    {q \in [1..Cardinality(S) -> S] : \A i, j \in 1..Cardinality(S) : q[i] = q[j] => i = j}

\* SELECT ... WHERE completed = FALSE AND remind_at <= utcnow()
get_pending_reminders(table) ==
    Orderings({id \in ReminderIds : ~table[id].completed /\ table[id].due})

\* UPDATE reminders SET completed = TRUE WHERE id = ?
mark_reminder_completed(table, id) == [table EXCEPT ![id].completed = TRUE]

DbOutcomes == {"ok", "raise"}
SendOutcomes == {"sent", "not_found", "raise"}

\* the clock reaches remind_at
TimePasses(id) ==
    /\ ~reminders[id].due
    /\ reminders' = [reminders EXCEPT ![id].due = TRUE]
    /\ UNCHANGED <<loop, sent>>
    /\ PluginsIdle

\* an iteration begins: await get_pending_reminders(); an exception ends the
\* iteration in the except branch
Fetch(db) ==
    /\ loop.pc = "sleeping"
    /\ IF db = "ok"
       THEN \E batch \in get_pending_reminders(reminders) :
               loop' = [loop EXCEPT !.batch = batch,
                                    !.pc = IF batch = <<>> THEN "sleeping" ELSE "send"]
       ELSE /\ loop.db_errors < MaxDbErrors
            /\ loop' = [loop EXCEPT !.db_errors = @ + 1]
    /\ UNCHANGED <<reminders, sent>>
    /\ PluginsIdle

\* await self._send_reminder(reminder): the message is delivered, or the
\* channel or user is not found, or channel.send raises and the exception is
\* logged inside _send_reminder
SendReminder(outcome) ==
    /\ loop.pc = "send"
    /\ LET id == Head(loop.batch)
       IN  IF outcome = "sent"
           THEN /\ sent[id] < MaxSent
                /\ sent' = [sent EXCEPT ![id] = @ + 1]
           ELSE sent' = sent
    /\ loop' = [loop EXCEPT !.pc = "mark"]
    /\ UNCHANGED reminders
    /\ PluginsIdle

\* await mark_reminder_completed(reminder["id"]), then the next reminder of
\* the batch; an exception ends the iteration in the except branch
MarkCompleted(db) ==
    /\ loop.pc = "mark"
    /\ IF db = "ok"
       THEN /\ reminders' = mark_reminder_completed(reminders, Head(loop.batch))
            /\ loop' = [loop EXCEPT !.batch = Tail(@),
                                    !.pc = IF Tail(loop.batch) = <<>>
                                           THEN "sleeping" ELSE "send"]
       ELSE /\ loop.db_errors < MaxDbErrors
            /\ reminders' = reminders
            /\ loop' = [loop EXCEPT !.batch = <<>>, !.pc = "sleeping",
                                    !.db_errors = @ + 1]
    /\ UNCHANGED sent
    /\ PluginsIdle

\* reminder_check_loop.cancel(): CancelledError is raised at the await the
\* task is suspended in; `except Exception` does not catch it
cog_unload ==
    /\ loop.pc # "cancelled"
    /\ loop.cancels < MaxCancels
    /\ loop' = [loop EXCEPT !.pc = "cancelled", !.batch = <<>>, !.cancels = @ + 1]
    /\ UNCHANGED <<reminders, sent>>
    /\ PluginsIdle

\* ReminderCog.__init__ of the cog loaded again: reminder_check_loop.start()
CogInit ==
    /\ loop.pc = "cancelled"
    /\ loop' = [loop EXCEPT !.pc = "sleeping"]
    /\ UNCHANGED <<reminders, sent>>
    /\ PluginsIdle

NextRem ==
    \/ \E id \in ReminderIds : TimePasses(id)
    \/ \E db \in DbOutcomes : Fetch(db)
    \/ \E outcome \in SendOutcomes : SendReminder(outcome)
    \/ \E db \in DbOutcomes : MarkCompleted(db)
    \/ cog_unload
    \/ CogInit

SpecRem == Init /\ [][NextRem]_vars

\* C30: as long as no database call of the loop has failed, no reminder
\* message is delivered twice, over any number of iterations and also when
\* the cog is unloaded between the sending of a reminder and its being
\* marked completed
C30_AtMostOnce ==
    loop.db_errors = 0 => \A id \in ReminderIds : sent[id] <= 1

====
